---- MODULE Spec2Model ----
(***************************************************************************)
(* yuzuping (src/src/main.rs): the rooms of a lobby are pinged through     *)
(* the system's ping command, at most `Permits' at a time, the output of   *)
(* each ping is parsed into a latency, and the rooms are printed sorted by *)
(* latency.                                                                *)
(*                                                                         *)
(* Byte strings (&[u8]) are sequences of byte values; Option<T> is a       *)
(* sequence of length at most one (<<>> is None, <<x>> is Some(x)); a      *)
(* Duration is its number of milliseconds.                                 *)
(***************************************************************************)
EXTENDS Integers, Sequences, FiniteSets

None == <<>>
Range(f) == {f[i] : i \in DOMAIN f}
Some(x) == <<x>>

(***************************************************************************)
(* output_to_duration, main.rs:124-154.                                    *)
(***************************************************************************)

\* b'\n', the separator of split (main.rs:127)
NL == 10
\* b'=' (main.rs:136)
EQ == 61
\* b"ms" (main.rs:131)
MS == <<109, 115>>
\* line.windows(16) (main.rs:130)
WindowLen == 16

\* u8::is_ascii_digit (main.rs:142)
is_ascii_digit(b) == b \in 48..57

\* slice::windows(n): every contiguous sub-slice of length n, in order; none
\* when the slice is shorter than n
windows(s, n) == [o \in 1..(Len(s) - n + 1) |-> SubSeq(s, o, o + n - 1)]

\* slice::ends_with
ends_with(s, suffix) ==
    /\ Len(s) >= Len(suffix)
    /\ SubSeq(s, Len(s) - Len(suffix) + 1, Len(s)) = suffix

\* stdout.split(|&b| b == b'\n') (main.rs:127): the pieces between the
\* separators, empty pieces included; an empty input is one empty line
split(s) ==
    LET nl      == {i \in 1..Len(s) : s[i] = NL}
        n       == Cardinality(nl)
        at(k)   == CHOOSE i \in nl : Cardinality({j \in nl : j < i}) = k - 1
        from(k) == IF k = 1 THEN 1 ELSE at(k - 1) + 1
        to(k)   == IF k = n + 1 THEN Len(s) ELSE at(k) - 1
    IN  [k \in 1..(n + 1) |-> SubSeq(s, from(k), to(k))]

\* variant: the first filter keeps every line
line_has_any(line, ip) == TRUE

\* the first filter (main.rs:128): the line has a window equal to ip
line_has_ip(line, ip) ==
    \E o \in 1..(Len(line) - Len(ip) + 1) : SubSeq(line, o, o + Len(ip) - 1) = ip

\* rev().find_map(b == b'='): the index (0-based, as in the source) of the
\* rightmost equals sign of the window, None when it has none (main.rs:132-136)
rfind_eq(window) ==
    LET at == {i \in 1..Len(window) : window[i] = EQ}
    IN  IF at = {} THEN None
        ELSE Some((CHOOSE i \in at : \A j \in at : j <= i) - 1)

\* position(|n| !n.is_ascii_digit()) (main.rs:140-142): the offset of the first
\* byte that is no digit, None when every byte is a digit
position_nondigit(s) ==
    LET at == {i \in 1..Len(s) : ~is_ascii_digit(s[i])}
    IN  IF at = {} THEN None
        ELSE Some((CHOOSE i \in at : \A j \in at : i <= j) - 1)

\* the value of a digit string
RECURSIVE digits_value(_)
digits_value(ds) ==
    IF ds = <<>> THEN 0
    ELSE 10 * digits_value(SubSeq(ds, 1, Len(ds) - 1)) + (ds[Len(ds)] - 48)

\* str::parse::<u64> of a string of ASCII digits (main.rs:145-148): an error
\* on the empty string and on a value above u64::MAX.  The digits come from a
\* 16-byte window that ends in "ms" and holds an equals sign, so they are at
\* most 13 and the value is below 10^13 < 2^64.
parse_u64(ds) ==
    IF ds = <<>> \/ Len(ds) > 19 THEN None ELSE Some(digits_value(ds))

\* The closure of main.rs:131-149 on a window that ends in "ms":
\* [panic |-> TRUE] when expect/unwrap fails, else the parsed number.
window_sample(window) ==
    LET eq == rfind_eq(window)
    IN  IF eq = None THEN [panic |-> TRUE, value |-> 0]
        ELSE
          LET start == eq[1] + 1
              rest  == SubSeq(window, start + 1, Len(window))
              end   == position_nondigit(rest)
          IN  IF end = None THEN [panic |-> TRUE, value |-> 0]
              ELSE
                LET n == parse_u64(SubSeq(rest, 1, end[1]))
                IN  IF n = None THEN [panic |-> TRUE, value |-> 0]
                    ELSE [panic |-> FALSE, value |-> n[1]]

\* line.windows(16).find_map(..) (main.rs:130-150): the closure runs on the
\* first window that ends in "ms", and only on that one
first_ms_window(line) ==
    LET ws == windows(line, WindowLen)
        at == {o \in DOMAIN ws : ends_with(ws[o], MS)}
    IN  IF at = {} THEN None
        ELSE Some(ws[CHOOSE o \in at : \A p \in at : o <= p])

Min(S) == CHOOSE x \in S : \A y \in S : x <= y

\* output_to_duration(ip, output) (main.rs:124-154), on output.stdout.
\* windows(0) panics, so an empty ip panics on the first line.
output_to_duration(ip, stdout) ==
    IF Len(ip) = 0 THEN [panic |-> TRUE, value |-> None]
    ELSE
      LET lines    == split(stdout)
          kept     == {i \in DOMAIN lines : line_has_ip(lines[i], ip)}
          matched  == {i \in kept : first_ms_window(lines[i]) # None}
          samples  == [i \in matched |-> window_sample(first_ms_window(lines[i])[1])]
      IN  IF \E i \in matched : samples[i].panic
            THEN [panic |-> TRUE, value |-> None]
          ELSE IF matched = {} THEN [panic |-> FALSE, value |-> None]
          ELSE [panic |-> FALSE, value |-> Some(Min({samples[i].value : i \in matched}))]

\* none_is_high (main.rs:96-98): Duration::from_secs(1000), in milliseconds
none_is_high(dur) == IF dur = None THEN 1000 * 1000 ELSE dur[1]


(***************************************************************************)
(* The inputs: the rooms of the lobby and what ping does for each.         *)
(***************************************************************************)

\* the largest batch; above Permits, so that tasks have to wait for a permit
MaxRooms == 11
\* batches up to this size take every combination of ping results
MaxSmall == 3

\* Room.address (main.rs:18) of the rooms, by position in the lobby's answer
RoomAddresses ==
    << <<49, 46, 50, 46, 51, 46, 52>>,     \* "1.2.3.4"
       <<57, 46, 57, 46, 57, 46, 57>> >>   \* "9.9.9.9"

address_of(i) == RoomAddresses[((i - 1) % Len(RoomAddresses)) + 1]

\* "Reply from "
ReplyFrom == <<82, 101, 112, 108, 121, 32, 102, 114, 111, 109, 32>>
\* ": bytes=32 time=50ms TTL=57"
Tail50 == <<58, 32, 98, 121, 116, 101, 115, 61, 51, 50, 32, 116, 105, 109, 101, 61, 53, 48, 109, 115, 32, 84, 84, 76, 61, 53, 55>>
\* ": bytes=32 time=10ms TTL=57"
Tail10 == <<58, 32, 98, 121, 116, 101, 115, 61, 51, 50, 32, 116, 105, 109, 101, 61, 49, 48, 109, 115, 32, 84, 84, 76, 61, 53, 55>>
\* ": Destination host unreachable."
TailUnreachable == <<58, 32, 68, 101, 115, 116, 105, 110, 97, 116, 105, 111, 110, 32, 104, 111, 115, 116, 32, 117, 110, 114, 101, 97, 99, 104, 97, 98, 108, 101, 46>>
\* " timed out after 500ms"
TailTimedOut == <<32, 116, 105, 109, 101, 100, 32, 111, 117, 116, 32, 97, 102, 116, 101, 114, 32, 53, 48, 48, 109, 115>>

\* ": time=9ms time=3ms"
TailTwoSamples == <<58, 32, 116, 105, 109, 101, 61, 57, 109, 115, 32, 116, 105, 109, 101, 61, 51, 109, 115>>
\* ": bytes=32 time<1ms TTL=57"
TailBelow1 == <<58, 32, 98, 121, 116, 101, 115, 61, 51, 50, 32, 116, 105, 109, 101, 60, 49, 109, 115, 32, 84, 84, 76, 61, 53, 55>>
\* ": icmp_seq=1 ttl=57 time=12.3 ms"
TailFraction == <<58, 32, 105, 99, 109, 112, 95, 115, 101, 113, 61, 49, 32, 116, 116, 108, 61, 53, 55, 32, 116, 105, 109, 101, 61, 49, 50, 46, 51, 32, 109, 115>>
\* ": bytes=32 time=ms TTL=57"
TailNoDigits == <<58, 32, 98, 121, 116, 101, 115, 61, 51, 50, 32, 116, 105, 109, 101, 61, 109, 115, 32, 84, 84, 76, 61, 53, 55>>
\* " t=5ms"
TailShort == <<32, 116, 61, 53, 109, 115>>
\* ": bytes=32 time=2000000ms TTL=57"
TailHuge == <<58, 32, 98, 121, 116, 101, 115, 61, 51, 50, 32, 116, 105, 109, 101, 61, 50, 48, 48, 48, 48, 48, 48, 109, 115, 32, 84, 84, 76, 61, 53, 55>>

\* Result<std::process::Output, std::io::Error> of ping(address) (main.rs:114-122)
Err == [ok |-> FALSE, stdout |-> <<>>]
Ok(raw) == [ok |-> TRUE, stdout |-> raw]

\* What ping(a) gives when the tool answers as expected or cannot be started:
\* a reply, a spawn failure, no reply, two replies.
UsualResults(a) ==
    << Ok(ReplyFrom \o a \o Tail50),
       Err,
       Ok(ReplyFrom \o a \o TailUnreachable),
       Ok(ReplyFrom \o a \o Tail50 \o <<NL>> \o ReplyFrom \o a \o Tail10 \o <<NL>>) >>

\* ... and a line that names the address and ends in "timed out after 500ms"
PingResults(a) == UsualResults(a) \o << Ok(a \o TailTimedOut) >>

(***************************************************************************)
(* main, main.rs:38-94, from the filtered rooms on.                        *)
(***************************************************************************)

\* Semaphore::new(10) (main.rs:58)
Permits == 10

VARIABLES
    rooms,      \* Vec<Room>: [name, address, ping]; name is the room's position in the lobby's answer
    probe,      \* probe[t]: what ping(&room.address) resolves to for the task of room t
    semaphore,  \* the permits available in the Semaphore
    permit,     \* permit[t]: the task of room t holds its _permit
    count,      \* the AtomicU64 count
    pc,         \* pc[t]: where the future of room t stands
    invoked,    \* invoked[t]: how many times the task of room t has called ping
    written,    \* written[r]: the tasks that have assigned the ping of room r, in order
    progress,   \* the "c/total" lines printed, as pairs
    mainpc,     \* where main stands
    ranking     \* the room lines printed, as the rooms

vars == <<rooms, probe, semaphore, permit, count, pc, invoked, written, progress, mainpc, ranking>>

\* rooms.len() (main.rs:60)
total == Len(rooms)
Tasks == 1..total

\* the state when main reaches join_all: the rooms with their addresses, no
\* ping measured, every future still to be polled
InitWith(addresses, pr) ==
    LET n == Len(addresses)
    IN  /\ rooms = [i \in 1..n |-> [name |-> i, address |-> addresses[i], ping |-> None]]
        /\ probe = pr
        /\ semaphore = Permits
        /\ permit = [t \in 1..n |-> FALSE]
        /\ count = 0
        /\ pc = [t \in 1..n |-> "acquire"]
        /\ invoked = [t \in 1..n |-> 0]
        /\ written = [r \in 1..n |-> <<>>]
        /\ progress = <<>>
        /\ mainpc = "join"
        /\ ranking = <<>>

\* a small batch: every combination of ping results
InitSmall ==
    \E n \in 0..MaxSmall :
        \E pr \in [1..n -> UNION {Range(PingResults(a)) : a \in Range(RoomAddresses)}] :
            /\ \A i \in 1..n : pr[i] \in Range(PingResults(address_of(i)))
            /\ InitWith([i \in 1..n |-> address_of(i)], pr)

\* a large batch: the usual results, in turn
InitLarge ==
    \E n \in (MaxSmall + 1)..MaxRooms :
        InitWith([i \in 1..n |-> address_of(i)],
                 [i \in 1..n |->
                    LET usual == UsualResults(address_of(i))
                    IN  usual[((i - 1) % Len(usual)) + 1]])

Init == InitSmall \/ InitLarge

(***************************************************************************)
(* The inputs of output_to_duration: one room, and an output of up to      *)
(* MaxLines lines, each naming the room's address or another one.          *)
(***************************************************************************)

MaxLines == 2

\* the addresses the lines of an output name
LineAddresses ==
    { <<49, 46, 50, 46, 51, 46, 52>>,       \* "1.2.3.4"
      <<57, 46, 57, 46, 57, 46, 57>>,       \* "9.9.9.9"
      <<49, 49, 46, 50, 46, 51, 46, 52>>,   \* "11.2.3.4"
      <<49, 46, 50, 46, 51, 46, 52, 53>> }  \* "1.2.3.45"

\* what follows the address on a line that names the room's address
ParseTails ==
    {Tail50, Tail10, TailUnreachable, TailTimedOut,
     TailTwoSamples, TailBelow1, TailFraction, TailNoDigits}

\* the lines of the output of ping for address a: its own lines, a line of
\* fewer than 16 bytes, and a reply from each other address
ParseLines(a) ==
    {ReplyFrom \o a \o tail : tail \in ParseTails}
        \cup {a \o TailShort}
        \cup {ReplyFrom \o b \o Tail10 : b \in LineAddresses \ {a}}

\* the lines of ls, each followed by a newline
RECURSIVE join_lines(_)
join_lines(ls) ==
    IF ls = <<>> THEN <<>> ELSE Head(ls) \o <<NL>> \o join_lines(Tail(ls))

ParseOutputs(a) ==
    UNION {{join_lines(ls) : ls \in [1..n -> ParseLines(a)]} : n \in 0..MaxLines}

InitParse ==
    \E a \in Range(RoomAddresses) :
        \E r \in {Err} \cup {Ok(raw) : raw \in ParseOutputs(a)} :
            InitWith(<<a>>, <<r>>)

(***************************************************************************)
(* The inputs of the ranking: up to MaxRanked rooms with every combination *)
(* of a latency of 50 ms, a spawn failure, a latency of 10 ms and a        *)
(* latency of 2000 s, and one room whose output makes the parser panic.    *)
(***************************************************************************)

MaxRanked == 3

RankResults(a) ==
    << Ok(ReplyFrom \o a \o Tail50),
       Err,
       Ok(ReplyFrom \o a \o Tail50 \o <<NL>> \o ReplyFrom \o a \o Tail10 \o <<NL>>),
       Ok(ReplyFrom \o a \o TailHuge) >>

InitRank ==
    \/ \E n \in 0..MaxRanked :
          \E pr \in [1..n -> UNION {Range(RankResults(a)) : a \in Range(RoomAddresses)}] :
              /\ \A i \in 1..n : pr[i] \in Range(RankResults(address_of(i)))
              /\ InitWith([i \in 1..n |-> address_of(i)], pr)
    \/ InitWith(<<address_of(1)>>, <<Ok(address_of(1) \o TailTimedOut)>>)

\* variant: acquire_owned never waits
acquire_always == TRUE

\* semaphore.clone().acquire_owned().await (main.rs:64) is ready
acquire_ready == semaphore > 0

\* The futures are not spawned: join_all (main.rs:76) polls them inside main, in
\* the order of rooms.iter_mut() (main.rs:63), so they ask for their permit in
\* that order, and the tokio Semaphore hands its permits out in the order they
\* were asked for: the task of room t gets its permit after those before it.
in_turn(t) == \A u \in 1..(t - 1) : pc[u] # "acquire"

\* variant: the counter is advanced by two
stored_twice(c) == c + 2

\* variant: the increment is lost
stored_stale(c) == c

\* count.store(c + 1, ..) (main.rs:68): the value stored
stored(c) == c + 1

\* variant: the future of task t borrows the next room
next_room(t) == (t % total) + 1

\* the room the future of task t borrows (main.rs:63): its own
own(t) == t

\* variant: the permit is never given back
drop_permit_forgotten(t) == UNCHANGED <<permit, semaphore>>

\* the end of the async block (main.rs:74): _permit is dropped
drop_permit(t) ==
    /\ permit' = [permit EXCEPT ![t] = FALSE]
    /\ semaphore' = semaphore + 1

\* variant: after the Err arm the task starts over
retry_after_err == "acquire"

\* main.rs:72: after the Err arm the block ends
after_err == "done"

\* variant: join_all returns with the first future that is done
join_any == \E t \in Tasks : pc[t] = "done"

\* join_all(pings).await (main.rs:76) is ready
join_ready == \A t \in Tasks : pc[t] = "done"

\* main.rs:64-70: the permit is acquired (the semaphore is never closed, so the
\* unwrap of main.rs:64 does not fail), the progress line printed, the counter
\* stored and ping called, with no await in between
Acquire(t) ==
    /\ mainpc = "join"
    /\ pc[t] = "acquire"
    /\ in_turn(t)
    /\ acquire_ready
    /\ semaphore' = semaphore - 1
    /\ permit' = [permit EXCEPT ![t] = TRUE]
    /\ LET c == count
       IN  /\ progress' = Append(progress, <<c, total>>)
           /\ count' = stored(c)
    /\ invoked' = [invoked EXCEPT ![t] = @ + 1]
    /\ pc' = [pc EXCEPT ![t] = "ping"]
    /\ UNCHANGED <<rooms, probe, written, mainpc, ranking>>

\* what output_to_duration gives for the output of the ping of task t
parsed(t) == output_to_duration(rooms[t].address, probe[t].stdout)

\* main.rs:70-71, 74: ping resolved to Ok(output), the output parsed and stored
PingOk(t) ==
    /\ mainpc = "join"
    /\ pc[t] = "ping"
    /\ probe[t].ok
    /\ ~parsed(t).panic
    /\ rooms' = [rooms EXCEPT ![own(t)].ping = parsed(t).value]
    /\ written' = [written EXCEPT ![rooms[own(t)].name] = Append(@, t)]
    /\ drop_permit(t)
    /\ pc' = [pc EXCEPT ![t] = "done"]
    /\ UNCHANGED <<probe, count, invoked, progress, mainpc, ranking>>

\* main.rs:70-71 when output_to_duration panics: the panic unwinds through
\* join_all and main, which drops every future with its permit; room.ping was
\* not assigned
PingPanic(t) ==
    /\ mainpc = "join"
    /\ pc[t] = "ping"
    /\ probe[t].ok
    /\ parsed(t).panic
    /\ pc' = [u \in Tasks |-> IF u = t THEN "panicked"
                              ELSE IF pc[u] = "done" THEN "done" ELSE "dropped"]
    /\ permit' = [u \in Tasks |-> FALSE]
    /\ semaphore' = semaphore + Cardinality({u \in Tasks : permit[u]})
    /\ mainpc' = "panicked"
    /\ UNCHANGED <<rooms, probe, count, invoked, written, progress, ranking>>

\* main.rs:70, 72, 74: ping resolved to Err, the error is printed
PingErr(t) ==
    /\ mainpc = "join"
    /\ pc[t] = "ping"
    /\ ~probe[t].ok
    /\ drop_permit(t)
    /\ pc' = [pc EXCEPT ![t] = after_err]
    /\ UNCHANGED <<rooms, probe, count, invoked, written, progress, mainpc, ranking>>

\* main.rs:76: join_all returns
Join ==
    /\ mainpc = "join"
    /\ join_ready
    /\ mainpc' = "sort"
    /\ UNCHANGED <<rooms, probe, semaphore, permit, count, pc, invoked, written, progress, ranking>>

\* variant: the rooms are left in the order of the lobby
sorted_not(rs) == rs

\* slice::sort_by (main.rs:78) is a stable sort: insertion of each room after
\* the rooms that are not greater
RECURSIVE sorted_by_ping(_)
sorted_by_ping(rs) ==
    IF rs = <<>> THEN <<>>
    ELSE
      LET front == sorted_by_ping(SubSeq(rs, 1, Len(rs) - 1))
          last  == rs[Len(rs)]
          k     == Cardinality({i \in DOMAIN front :
                        none_is_high(front[i].ping) <= none_is_high(last.ping)})
      IN  SubSeq(front, 1, k) \o <<last>> \o SubSeq(front, k + 1, Len(front))

\* main.rs:78
Sort ==
    /\ mainpc = "sort"
    /\ rooms' = sorted_by_ping(rooms)
    /\ mainpc' = "print"
    /\ UNCHANGED <<probe, semaphore, permit, count, pc, invoked, written, progress, ranking>>

\* variant: the rooms are printed front to back
printed_forward(rs) == SelectSeq(rs, LAMBDA r : r.ping # None)

\* rooms.iter().rev() with if let Some(ping) (main.rs:80-89): the rooms printed
RECURSIVE printed_rooms(_)
printed_rooms(rs) ==
    IF rs = <<>> THEN <<>>
    ELSE
      LET last == rs[Len(rs)]
          rest == printed_rooms(SubSeq(rs, 1, Len(rs) - 1))
      IN  IF last.ping # None THEN <<last>> \o rest ELSE rest

\* main.rs:80-91
PrintRanking ==
    /\ mainpc = "print"
    /\ ranking' = printed_rooms(rooms)
    /\ mainpc' = "exit"
    /\ UNCHANGED <<rooms, probe, semaphore, permit, count, pc, invoked, written, progress>>

Next ==
    \/ \E t \in Tasks : Acquire(t)
    \/ \E t \in Tasks : PingOk(t)
    \/ \E t \in Tasks : PingPanic(t)
    \/ \E t \in Tasks : PingErr(t)
    \/ Join
    \/ Sort
    \/ PrintRanking

Spec == Init /\ [][Next]_vars

SpecParse == InitParse /\ [][Next]_vars

SpecRank == InitRank /\ [][Next]_vars

(***************************************************************************)
(* Properties.                                                             *)
(***************************************************************************)

\* the room that was at position r of the lobby's answer
RoomNamed(r) == rooms[CHOOSE i \in DOMAIN rooms : rooms[i].name = r]

Holders == {t \in Tasks : permit[t]}
AllDone == \A t \in Tasks : pc[t] = "done"

\* C1: at every point of a batch of any size at most Permits (10) tasks hold a
\* permit, the permits held and the permits available add up to 10, and a task
\* whose ping is running holds a permit.
C1_AtMostTenInFlight ==
    /\ Cardinality(Holders) <= Permits
    /\ semaphore >= 0
    /\ semaphore + Cardinality(Holders) = Permits
    /\ \A t \in Tasks : pc[t] = "ping" => permit[t]
    /\ \A t \in Tasks : invoked[t] > 0 => pc[t] # "acquire"

\* a batch of more than 10 rooms with 10 pings running and a task waiting
C1_Witness ==
    /\ total > Permits
    /\ Cardinality({t \in Tasks : pc[t] = "ping"}) = Permits
    /\ semaphore = 0
    /\ \E t \in Tasks : pc[t] = "acquire"

\* C2: a task holds its permit while its ping runs and until its result is
\* handled, a task that is done holds none whatever the outcome was, and once
\* all tasks are done all 10 permits are available again.
C2_PermitHeldThenReleased ==
    /\ \A t \in Tasks : pc[t] = "ping" => permit[t]
    /\ \A t \in Tasks : pc[t] = "done" => ~permit[t]
    /\ \A t \in Tasks : pc[t] = "acquire" => ~permit[t]
    /\ AllDone => semaphore = Permits

\* a batch of more than 10 rooms has ended with the three outcomes: a latency,
\* no sample, a spawn failure
C2_Witness ==
    /\ total > Permits
    /\ mainpc = "sort"
    /\ AllDone
    /\ semaphore = Permits
    /\ \E t \in Tasks : probe[t].ok /\ rooms[t].ping # None
    /\ \E t \in Tasks : probe[t].ok /\ rooms[t].ping = None
    /\ \E t \in Tasks : ~probe[t].ok

\* C3: the sort and the printing of the ranking happen only when every task is
\* done: main is past join_all, or a room has been printed, only if no task is
\* waiting for a permit or pinging.
C3_RankingAfterAllTasks ==
    (mainpc \in {"sort", "print", "exit"} \/ ranking # <<>>) =>
        \A t \in Tasks : pc[t] = "done" /\ ~permit[t]

\* the ranking of a batch of more than 10 rooms has been printed
C3_Witness ==
    /\ total > Permits
    /\ mainpc = "exit"
    /\ ranking # <<>>

\* C4: when the ping of a room failed to spawn, the room's latency is absent
\* and the batch is not aborted: no task has been dropped before its end.
C4_SpawnFailureBatchCompletes ==
    \A t \in Tasks :
        (pc[t] = "done" /\ ~probe[t].ok) =>
            /\ RoomNamed(t).ping = None
            /\ mainpc # "panicked"
            /\ \A u \in Tasks : pc[u] \notin {"dropped", "panicked"}

\* C5: whatever happens in the task of one room, no other task is kept from
\* its end and the batch is not aborted.
C5_FailuresContained ==
    \A t \in Tasks :
        pc[t] \notin {"acquire", "ping", "done"} =>
            /\ mainpc # "panicked"
            /\ \A u \in Tasks \ {t} : pc[u] # "dropped"

\* a step of the program is possible: main sorts or prints, join_all returns, a
\* ping resolves, or the next waiting task finds a permit
CanStep ==
    \/ mainpc \in {"sort", "print"}
    \/ mainpc = "join" /\ join_ready
    \/ mainpc = "join" /\ \E t \in Tasks : pc[t] = "ping"
    \/ mainpc = "join" /\ \E t \in Tasks : pc[t] = "acquire" /\ in_turn(t) /\ acquire_ready

\* C6: the batch runs to completion: as long as the ranking is not printed with
\* every task done, a step is possible (no task waits for a permit that is never
\* released, and the program does not stop before join_all has returned).
C6_BatchRunsToCompletion ==
    CanStep \/ (mainpc = "exit" /\ AllDone)

\* C7: count never decreases, and when all tasks are done it is the number of rooms.
C7_CountReachesTotal ==
    /\ [][count' >= count]_vars
    /\ [](AllDone => count = total)

\* all tasks of a batch of more than 10 rooms are done and count is its size
C7_Witness ==
    /\ total > Permits
    /\ AllDone
    /\ count = total

\* C8: the ping of a room is assigned by the task of that room only, and at most
\* once; the ping of a room whose task is not done is absent.
C8_PingWrittenByOwnTaskOnce ==
    \A r \in Tasks :
        /\ written[r] \in {<<>>, <<r>>}
        /\ pc[r] # "done" => (written[r] = <<>> /\ RoomNamed(r).ping = None)
        /\ written[r] = <<>> => RoomNamed(r).ping = None

\* two rooms have their ping from their own tasks while a third task is pinging
C8_Witness ==
    \E r1, r2, r3 \in Tasks :
        /\ r1 # r2
        /\ written[r1] = <<r1>> /\ RoomNamed(r1).ping # None
        /\ written[r2] = <<r2>> /\ RoomNamed(r2).ping # None
        /\ pc[r3] = "ping" /\ RoomNamed(r3).ping = None

address_byte(b) == is_ascii_digit(b) \/ b = 46

\* the line names address a: a stands in it as a whole address, not as a part of
\* a longer one
names_address(line, a) ==
    \E o \in 1..(Len(line) - Len(a) + 1) :
        /\ SubSeq(line, o, o + Len(a) - 1) = a
        /\ o = 1 \/ ~address_byte(line[o - 1])
        /\ o + Len(a) - 1 = Len(line) \/ ~address_byte(line[o + Len(a)])

\* the output without the lines that do not name address a
lines_naming(a, raw) ==
    LET names(line) == names_address(line, a)
    IN  join_lines(SelectSeq(split(raw), names))

\* C10: the lines that name another address contribute no sample: the ping
\* stored for a room is what its output gives without these lines.
C10_OtherAddressLinesIgnored ==
    \A t \in Tasks :
        (pc[t] = "done" /\ probe[t].ok) =>
            RoomNamed(t).ping =
                output_to_duration(RoomNamed(t).address,
                                   lines_naming(RoomNamed(t).address, probe[t].stdout)).value

(***************************************************************************)
(* The samples of an output as the specification describes them: an equals *)
(* sign, a run of ASCII digits, and the unit "ms" directly after the run,  *)
(* anywhere on a line that names the address.                              *)
(***************************************************************************)

\* the length of the longest run of digits of line that starts at position i
digit_run(line, i) ==
    LET ks == {k \in 0..(Len(line) - i + 1) :
                  \A j \in i..(i + k - 1) : is_ascii_digit(line[j])}
    IN  CHOOSE k \in ks : \A m \in ks : m <= k

\* the positions of the equals signs of line that start a sample
sample_positions(line) ==
    {i \in 1..Len(line) :
        /\ line[i] = EQ
        /\ LET k == digit_run(line, i + 1)
           IN  /\ k >= 1
               /\ i + k + Len(MS) <= Len(line)
               /\ SubSeq(line, i + k + 1, i + k + Len(MS)) = MS}

\* the number of milliseconds of the sample that starts at position i
sample_value(line, i) == digits_value(SubSeq(line, i + 1, i + digit_run(line, i + 1)))

\* the samples of raw attributable to address a, as <<line, position>>
attributed_samples(a, raw) ==
    LET lines == split(raw)
    IN  UNION {{<<l, i>> : i \in sample_positions(lines[l])} :
                  l \in {l \in DOMAIN lines : names_address(lines[l], a)}}

attributed_values(a, raw) ==
    {sample_value(split(raw)[s[1]], s[2]) : s \in attributed_samples(a, raw)}

\* the task has parsed its output and stored the result
Parsed(t) == pc[t] = "done" /\ probe[t].ok

\* C11: when the output of a room holds several samples attributable to its
\* address, on different lines or on the same line, the ping stored for the
\* room is the least of them.
C11_MinimumOverAllSamples ==
    \A t \in Tasks :
        LET a   == RoomNamed(t).address
            raw == probe[t].stdout
        IN  (Parsed(t) /\ Cardinality(attributed_samples(a, raw)) >= 2) =>
                RoomNamed(t).ping = Some(Min(attributed_values(a, raw)))

\* C12: when exactly one line of the output names the address and holds a
\* sample, whatever the length of the line and wherever the sample stands in
\* it, the ping stored for the room is the number of that sample.
C12_SingleSampleReturned ==
    \A t \in Tasks :
        LET a   == RoomNamed(t).address
            raw == probe[t].stdout
        IN  (Parsed(t) /\ Cardinality(attributed_samples(a, raw)) = 1) =>
                RoomNamed(t).ping = Some(Min(attributed_values(a, raw)))

\* address a stands somewhere in line, byte for byte
contains(line, a) ==
    \E o \in 1..Len(line) :
        /\ o + Len(a) - 1 <= Len(line)
        /\ \A j \in 1..Len(a) : line[o + j - 1] = a[j]

\* no line of the output of task t contains the address of its room
NoLineOfAddress(t) ==
    \A line \in Range(split(probe[t].stdout)) : ~contains(line, RoomNamed(t).address)

\* C13: when no line of the output contains the address of the room, the empty
\* output included, the parser returns and the ping stored for the room is
\* None.
C13_NoLineOfAddressGivesNone ==
    \A t \in Tasks :
        (probe[t].ok /\ pc[t] \in {"done", "panicked"} /\ NoLineOfAddress(t)) =>
            (pc[t] = "done" /\ RoomNamed(t).ping = None)

\* an output that holds a sample, on a line of another address only, has been
\* parsed to None
C13_Witness ==
    \E t \in Tasks :
        /\ Parsed(t)
        /\ NoLineOfAddress(t)
        /\ \E line \in Range(split(probe[t].stdout)) : sample_positions(line) # {}
        /\ RoomNamed(t).ping = None

\* the parser has run on the output of task t, to its end or to a panic
ParserRan(t) == probe[t].ok /\ pc[t] \in {"done", "panicked"}

\* the lines of the output of task t that contain the address of its room
surviving_lines(t) ==
    {line \in Range(split(probe[t].stdout)) : contains(line, RoomNamed(t).address)}

\* C14: when lines of the output contain the address but none of them holds a
\* sample, the parser returns and the ping stored for the room is None: the
\* program is not aborted and no number is stored.
C14_NoSampleGivesNone ==
    \A t \in Tasks :
        (/\ ParserRan(t)
         /\ surviving_lines(t) # {}
         /\ \A line \in surviving_lines(t) : sample_positions(line) = {}) =>
            (pc[t] = "done" /\ mainpc # "panicked" /\ RoomNamed(t).ping = None)

\* the numbers of all samples of the output of task t, on any line
all_sample_values(t) ==
    UNION {{sample_value(line, i) : i \in sample_positions(line)} :
              line \in Range(split(probe[t].stdout))}

\* C18: the ping stored for a room is never the number of a digit run that is
\* not directly followed by "ms": a stored ping is the number of a sample of
\* the output.
C18_OnlyDigitsBeforeMs ==
    \A t \in Tasks :
        (Parsed(t) /\ RoomNamed(t).ping # None) =>
            RoomNamed(t).ping[1] \in all_sample_values(t)

\* the 16-byte windows the scanner selects on the output of task t: the first
\* window that ends in "ms" of each line that contains the address
selected_windows(t) ==
    {first_ms_window(line)[1] :
        line \in {l \in surviving_lines(t) : first_ms_window(l) # None}}

\* the bytes of a window after its rightmost equals sign
after_eq(window) == SubSeq(window, rfind_eq(window)[1] + 2, Len(window))

\* C19: the assertions of the parser never fire: every window the scanner
\* has selected holds an equals sign, and the digit run after its rightmost
\* equals sign is not empty and fits an unsigned 64-bit integer.
C19_AssertionsNeverFire ==
    \A t \in Tasks :
        ParserRan(t) =>
            \A window \in selected_windows(t) :
                /\ rfind_eq(window) # None
                /\ digit_run(after_eq(window), 1) >= 1
                /\ parse_u64(SubSeq(after_eq(window), 1, digit_run(after_eq(window), 1))) # None

\* the rooms have been sorted
Sorted == mainpc \in {"print", "exit"}

\* C15: after the sort every room with an absent ping stands after every room
\* with a present ping, whatever number of milliseconds the parser returned.
C15_AbsentSortsLast ==
    Sorted =>
        \A i, j \in DOMAIN rooms :
            (rooms[i].ping = None /\ rooms[j].ping # None) => j < i

\* C16: the ranking printed holds exactly the rooms with a present ping, each
\* once, from the greatest ping to the least; a room with an absent ping is
\* never printed.
C16_RankingWorstFirst ==
    mainpc = "exit" =>
        /\ Range(ranking) = {r \in Range(rooms) : r.ping # None}
        /\ \A k, l \in DOMAIN ranking : ranking[k].name = ranking[l].name => k = l
        /\ \A k, l \in DOMAIN ranking : k < l => ranking[k].ping[1] >= ranking[l].ping[1]

\* a ranking of different pings has been printed for a batch with an absent ping
C16_Witness ==
    /\ mainpc = "exit"
    /\ \E k, l \in DOMAIN ranking : ranking[k].ping # ranking[l].ping
    /\ \E r \in Range(rooms) : r.ping = None

\* the pings of the rooms in the order of the lobby
lobby_pings == [r \in 1..total |-> RoomNamed(r).ping]

\* the pings of the ranking, in the order printed
printed_pings == [k \in DOMAIN ranking |-> ranking[k].ping[1]]

\* the ranking of the rooms with pings [50ms, absent, 10ms] has been printed
Ranked50None10 ==
    /\ mainpc = "exit"
    /\ lobby_pings = <<Some(50), None, Some(10)>>

\* C17 as stated: for rooms with pings [50ms, absent, 10ms] the ranking printed
\* is 10ms then 50ms.
C17_Printed10Then50 ==
    Ranked50None10 => printed_pings = <<10, 50>>

\* C17: for rooms with pings [50ms, absent, 10ms] the ranking printed is 50ms
\* then 10ms, the best last, and the room with the absent ping is not printed.
C17_Printed50Then10 ==
    Ranked50None10 =>
        /\ printed_pings = <<50, 10>>
        /\ [k \in DOMAIN ranking |-> ranking[k].name] = <<1, 3>>

\* the two rooms of [50ms, absent, 10ms] with a present ping have been printed
C17_Witness ==
    /\ Ranked50None10
    /\ Len(ranking) = 2

\* the tasks that have printed their progress line
Reported == {t \in Tasks : invoked[t] = 1}

====
